---- MODULE Spec2Model ----
(***************************************************************************)
(* Model of @seed-fe/request (src/unnamed/part_000, src/src/types.ts):     *)
(* the instance registry (defineRequestConfig, getRequestInstance), the    *)
(* interceptor normalizer (handleRequestInterceptor,                       *)
(* handleResponseInterceptor, addInterceptorsToInstance) and the           *)
(* dispatcher request() with its one-shot interceptors and error policy.   *)
(*                                                                         *)
(* JavaScript values are encoded so that TLC can compare them:             *)
(*   - an optional boolean is one of "undefined", "true", "false";         *)
(*   - an instance name is a record [type, key]: type "undefined" (the     *)
(*     property is absent), "string" (key is the string) or "symbol"       *)
(*     (Symbol.for(key));                                                  *)
(*   - a callback is the string that names it, "undefined" when absent;    *)
(*   - an interceptor declaration is a record [shape, self, hasOnConfig,   *)
(*     onConfig, onError, items]: self names the declared value itself,    *)
(*     hasOnConfig is ('onConfig' in declaration), items the elements of   *)
(*     an array declaration;                                               *)
(*   - config.errorConfig?.errorHandler is the field errorHandler.         *)
(* The axios primitives the code calls (InterceptorManager use and eject,  *)
(* axios.create) are modelled at their call sites.                         *)
(***************************************************************************)
EXTENDS Integers, Sequences, FiniteSets, TLC

VARIABLES
    instanceMap,   \* Map<InstanceName, AxiosInstance>: name -> index into instances
    instances,     \* the AxiosInstance objects created so far, in creation order
    calls,         \* one record per request() invocation
    last,          \* what the last defineRequestConfig / getRequestInstance call did
    walk           \* one addInterceptorsToInstance run, interceptor by interceptor

vars == <<instanceMap, instances, calls, last, walk>>

----------------------------------------------------------------------------
(* Bounds of the model *)

\* request() invocations in a behaviour of Spec (they may overlap)
MaxCalls == 2

\* request() invocations in a behaviour of SpecPolicy
MaxPolicyCalls == 1

\* configurations in a list given to defineRequestConfig
MaxConfigs == 2

\* interceptor declarations in a list of a configuration
MaxDecls == 2

----------------------------------------------------------------------------
(* JavaScript values *)

Undefined == "undefined"

INVALID_INTERCEPTOR_ID == -1

NameUndefined == [type |-> "undefined", key |-> ""]

StringName(s) == [type |-> "string", key |-> s]

\* Symbol.for(key)
SymbolFor(key) == [type |-> "symbol", key |-> key]

DEFAULT_INSTANCE_NAME == SymbolFor("default")

\* a ?? b, for a callback or an optional boolean
Coalesce(a, b) == IF a = Undefined THEN b ELSE a

\* a ?? b, for an instance name
CoalesceName(a, b) == IF a = NameUndefined THEN b ELSE a

\* Boolean(x) for a callback or an optional boolean: undefined and false are falsy
Truthy(x) == x # Undefined /\ x # "false"

\* Boolean(name) for an instance name: undefined and '' are falsy
TruthyName(name) == name # NameUndefined /\ name # StringName("")

\* String(instanceName): a symbol prints as Symbol(description)
StringOf(name) ==
    CASE name.type = "symbol" -> "Symbol(" \o name.key \o ")"
      [] name.type = "undefined" -> "undefined"
      [] OTHER -> name.key

----------------------------------------------------------------------------
(* Interceptor declarations (types.ts) *)

FunctionDecl(f) ==
    [shape |-> "function", self |-> f, hasOnConfig |-> FALSE,
     onConfig |-> Undefined, onError |-> Undefined, items |-> <<>>]

ArrayDecl(n, fs) ==
    [shape |-> "array", self |-> n, hasOnConfig |-> FALSE,
     onConfig |-> Undefined, onError |-> Undefined, items |-> fs]

\* { onConfig: c, onError: e }; has = FALSE when the onConfig key is absent
ObjectDecl(n, has, c, e) ==
    [shape |-> "object", self |-> n, hasOnConfig |-> has,
     onConfig |-> c, onError |-> e, items |-> <<>>]

\* the default error callback (error) => Promise.reject(error)
Rethrow == "(error) => Promise.reject(error)"

----------------------------------------------------------------------------
(* axios InterceptorManager: handlers is an array, use pushes and returns   *)
(* the index, eject nulls the slot                                          *)

NullHandler == [fulfilled |-> "null", rejected |-> "null"]

\* chain.use(fulfilled, rejected): [chain, id]
Use(chain, fulfilled, rejected) ==
    [chain |-> Append(chain, [fulfilled |-> fulfilled, rejected |-> rejected]),
     id |-> Len(chain)]

\* chain.eject(id)
Eject(chain, id) ==
    IF id >= 0 /\ id < Len(chain) /\ chain[id + 1] # NullHandler
    THEN [chain EXCEPT ![id + 1] = NullHandler]
    ELSE chain

\* identifier id names a slot of chain that holds a handler
Attached(chain, id) ==
    id >= 0 /\ id < Len(chain) /\ chain[id + 1] # NullHandler

RECURSIVE EjectAll(_, _)
\* ids.forEach((id) => chain.eject(id))
EjectAll(chain, ids) ==
    IF ids = <<>> THEN chain
    ELSE EjectAll(Eject(chain, Head(ids)), Tail(ids))

----------------------------------------------------------------------------
(* 4.1 the interceptor normalizer *)

\* handleRequestInterceptor(instance, interceptor): [instance, id]
handleRequestInterceptor(instance, d) ==
    LET chain == instance.request
        r == IF d.shape = "object" /\ d.hasOnConfig
             THEN IF Truthy(d.onConfig)
                  THEN Use(chain, d.onConfig, Coalesce(d.onError, Rethrow))
                  ELSE [chain |-> chain, id |-> INVALID_INTERCEPTOR_ID]
             ELSE IF d.shape = "array"
             THEN IF Len(d.items) = 2
                  THEN Use(chain, d.items[1], d.items[2])
                  ELSE Use(chain,
                           IF Len(d.items) >= 1 THEN d.items[1] ELSE Undefined,
                           Undefined)
             ELSE Use(chain, d.self, Undefined)
    IN  [instance |-> [instance EXCEPT !.request = r.chain], id |-> r.id]

\* handleResponseInterceptor(instance, interceptor): [instance, id]
handleResponseInterceptor(instance, d) ==
    LET chain == instance.response
        r == IF d.shape = "object" /\ d.hasOnConfig
             THEN IF Truthy(d.onConfig)
                  THEN Use(chain, d.onConfig, Coalesce(d.onError, Rethrow))
                  ELSE [chain |-> chain, id |-> INVALID_INTERCEPTOR_ID]
             ELSE IF d.shape = "array"
             THEN IF Len(d.items) = 2
                  THEN Use(chain, d.items[1], d.items[2])
                  ELSE Use(chain,
                           IF Len(d.items) >= 1 THEN d.items[1] ELSE Undefined,
                           Undefined)
             ELSE Use(chain, d.self, Undefined)
    IN  [instance |-> [instance EXCEPT !.response = r.chain], id |-> r.id]

----------------------------------------------------------------------------
(* 4.2 the bulk attach helper *)

\* config.interceptors.request / .response: absent, one object, or a list
NoInterceptors == [form |-> "undefined", items |-> <<>>]

SingleInterceptor(d) == [form |-> "single", items |-> <<d>>]

InterceptorList(ds) == [form |-> "list", items |-> ds]

Tagged(side, ds) == [i \in 1..Len(ds) |-> [side |-> side, decl |-> ds[i]]]

\* the handle calls addInterceptorsToInstance makes for config, in order:
\* interceptors.request, interceptors.response, requestInterceptors,
\* responseInterceptors
AttachSteps(config) ==
    Tagged("request", config.interceptorsRequest.items)
        \o Tagged("response", config.interceptorsResponse.items)
        \o Tagged("request", config.requestInterceptors.items)
        \o Tagged("response", config.responseInterceptors.items)

\* one iteration of a forEach of addInterceptorsToInstance; acc is
\* [instance, requestIds, responseIds, id], id the identifier just returned
AttachOne(acc, step, isOneTime) ==
    IF step.side = "request"
    THEN LET r == handleRequestInterceptor(acc.instance, step.decl)
         IN  [instance |-> r.instance,
              requestIds |->
                  IF r.id # INVALID_INTERCEPTOR_ID /\ isOneTime
                  THEN Append(acc.requestIds, r.id) ELSE acc.requestIds,
              responseIds |-> acc.responseIds,
              id |-> r.id]
    ELSE LET r == handleResponseInterceptor(acc.instance, step.decl)
         IN  [instance |-> r.instance,
              requestIds |-> acc.requestIds,
              responseIds |->
                  IF r.id # INVALID_INTERCEPTOR_ID /\ isOneTime
                  THEN Append(acc.responseIds, r.id) ELSE acc.responseIds,
              id |-> r.id]

RECURSIVE AttachAll(_, _, _)
AttachAll(acc, steps, isOneTime) ==
    IF steps = <<>> THEN acc
    ELSE AttachAll(AttachOne(acc, Head(steps), isOneTime), Tail(steps), isOneTime)

\* addInterceptorsToInstance(instance, config, isOneTime):
\* [instance, requestIds, responseIds]
addInterceptorsToInstance(instance, config, isOneTime) ==
    LET r == AttachAll([instance |-> instance, requestIds |-> <<>>,
                        responseIds |-> <<>>, id |-> INVALID_INTERCEPTOR_ID],
                       AttachSteps(config), isOneTime)
    IN  [instance |-> r.instance, requestIds |-> r.requestIds,
         responseIds |-> r.responseIds]

----------------------------------------------------------------------------
(* Request configurations (types.ts, CustomRequestConfig) *)

Config(name, skip, full, handler, ireq, ires, freq, fres) ==
    [instanceName |-> name, skipErrorHandler |-> skip, withFullResponse |-> full,
     errorHandler |-> handler,
     interceptorsRequest |-> ireq, interceptorsResponse |-> ires,
     requestInterceptors |-> freq, responseInterceptors |-> fres,
     method |-> Undefined, url |-> Undefined, data |-> Undefined]

\* a configuration that declares no interceptor
PlainConfig(name, skip, full, handler) ==
    Config(name, skip, full, handler,
           NoInterceptors, NoInterceptors, NoInterceptors, NoInterceptors)

EmptyConfig == PlainConfig(NameUndefined, Undefined, Undefined, Undefined)

----------------------------------------------------------------------------
(* Errors *)

NoError == [kind |-> "none", name |-> ""]

\* Error(`Instance ${String(instanceName)} already exists, cannot be defined again`)
DuplicateInstanceError(name) ==
    [kind |-> "Instance already exists, cannot be defined again",
     name |-> StringOf(name)]

\* Error('Default instance already exists, must specify instanceName for new instance')
DefaultExistsError ==
    [kind |-> "Default instance already exists, must specify instanceName for new instance",
     name |-> ""]

\* Error(`Axios instance not found for instanceName: ${String(...)}`)
NotFoundError(name) ==
    [kind |-> "Axios instance not found for instanceName", name |-> StringOf(name)]

\* what the transport rejects with
TransportError(e) == [kind |-> "transport", name |-> e]

\* what errorHandler h throws, when it throws
HandlerError(h) == [kind |-> "thrown by handler", name |-> h]

----------------------------------------------------------------------------
(* 4.3 the instance registry *)

Has(map, name) == name \in DOMAIN map

Size(map) == Cardinality(DOMAIN map)

MapSet(map, name, v) ==
    [k \in DOMAIN map \cup {name} |-> IF k = name THEN v ELSE map[k]]

\* axios.create(config): the configuration becomes the instance's defaults,
\* both interceptor chains start empty
AxiosCreate(config) == [defaults |-> config, request |-> <<>>, response |-> <<>>]

WarnIgnored ==
    [level |-> "warn",
     text |-> "Default instance already defined, ignoring this definition",
     name |-> ""]

LogDefined(name) ==
    [level |-> "log", text |-> "Successfully defined request instance", name |-> StringOf(name)]

\* DefineOne without the instanceMap.has(instanceName) check: a repeated name
\* replaces the stored instance
DefineOneOverwrite(st, config) ==
    LET instanceName == CoalesceName(config.instanceName, DEFAULT_INSTANCE_NAME)
        instance ==
            addInterceptorsToInstance(AxiosCreate(config), config, FALSE).instance
    IN  [map |-> MapSet(st.map, instanceName, Len(st.instances) + 1),
         instances |-> Append(st.instances, instance),
         thrown |-> st.thrown,
         console |-> Append(st.console, LogDefined(instanceName))]

\* the body of configsArray.forEach in defineRequestConfig; st is
\* [map, instances, thrown, console]
DefineOne(st, config) ==
    LET instanceName == CoalesceName(config.instanceName, DEFAULT_INSTANCE_NAME)
    IN  IF Has(st.map, instanceName)
        THEN IF instanceName = DEFAULT_INSTANCE_NAME /\ Size(st.map) = 0
             THEN [st EXCEPT !.console = Append(@, WarnIgnored)]
             ELSE [st EXCEPT !.thrown = DuplicateInstanceError(instanceName)]
        ELSE IF ~TruthyName(config.instanceName) /\ Has(st.map, DEFAULT_INSTANCE_NAME)
        THEN [st EXCEPT !.thrown = DefaultExistsError]
        ELSE LET instance ==
                     addInterceptorsToInstance(AxiosCreate(config), config, FALSE).instance
             IN  [map |-> MapSet(st.map, instanceName, Len(st.instances) + 1),
                  instances |-> Append(st.instances, instance),
                  thrown |-> st.thrown,
                  console |-> Append(st.console, LogDefined(instanceName))]

RECURSIVE DefineEachContinue(_, _)
\* DefineEach that goes on after an element threw, and throws the first error
\* once the list is done
DefineEachContinue(st, configsArray) ==
    IF configsArray = <<>> THEN st
    ELSE LET r == DefineOne([st EXCEPT !.thrown = NoError], Head(configsArray))
         IN  DefineEachContinue(
                 [r EXCEPT !.thrown = IF st.thrown # NoError THEN st.thrown ELSE @],
                 Tail(configsArray))

RECURSIVE DefineEach(_, _)
\* configsArray.forEach: a throw ends the loop
DefineEach(st, configsArray) ==
    IF configsArray = <<>> \/ st.thrown # NoError THEN st
    ELSE DefineEach(DefineOne(st, Head(configsArray)), Tail(configsArray))

\* defineRequestConfig(configs) on registry map and heap instances; configs is
\* [form |-> "single" or "list", items]
defineRequestConfig(map, heap, configs) ==
    DefineEach([map |-> map, instances |-> heap, thrown |-> NoError,
                console |-> <<>>],
               configs.items)

\* getRequestInstance looking up instanceName itself, without ?? DEFAULT_INSTANCE_NAME
getRequestInstanceNoDefault(map, instanceName) ==
    IF Has(map, instanceName)
    THEN [thrown |-> NoError, returned |-> map[instanceName]]
    ELSE [thrown |-> NotFoundError(instanceName), returned |-> 0]

\* getRequestInstance(instanceName): [thrown, returned], returned an index
\* into instances (0 when it throws)
getRequestInstance(map, instanceName) ==
    LET key == CoalesceName(instanceName, DEFAULT_INSTANCE_NAME)
    IN  IF Has(map, key)
        THEN [thrown |-> NoError, returned |-> map[key]]
        ELSE [thrown |-> NotFoundError(CoalesceName(instanceName, DEFAULT_INSTANCE_NAME)),
              returned |-> 0]

----------------------------------------------------------------------------
(* 4.4 the dispatcher *)

\* [...instanceMap.entries()].find(([name]) => name === instanceName)?.[1]?.defaults
InstanceConfig(map, heap, instanceName) ==
    IF Has(map, instanceName)
    THEN [found |-> TRUE, defaults |-> heap[map[instanceName]].defaults]
    ELSE [found |-> FALSE, defaults |-> EmptyConfig]

\* MergedConfig with config.withFullResponse || instanceConfig?.withFullResponse:
\* a call-level false falls through to the instance's default
MergedConfigOr(config, instanceConfig) ==
    [config EXCEPT !.withFullResponse =
        IF Truthy(config.withFullResponse) THEN config.withFullResponse
        ELSE IF instanceConfig.found THEN instanceConfig.defaults.withFullResponse
        ELSE Undefined]

\* { ...config, withFullResponse: config.withFullResponse !== undefined
\*       ? config.withFullResponse : instanceConfig?.withFullResponse }
MergedConfig(config, instanceConfig) ==
    [config EXCEPT !.withFullResponse =
        IF config.withFullResponse # Undefined THEN config.withFullResponse
        ELSE IF instanceConfig.found THEN instanceConfig.defaults.withFullResponse
        ELSE Undefined]

\* the error handlers that throw when they are called
ThrowingHandlers == {"callHandlerThrows", "instanceHandlerThrows"}

\* Invoke inside a try/catch of its own: what the handler throws is dropped
InvokeCaught(handler, error, merged) ==
    [invoked |-> <<[handler |-> handler, error |-> error, config |-> merged]>>,
     error |-> error]

\* handler(error, { config }): one invocation, and what it throws
Invoke(handler, error, merged) ==
    [invoked |-> <<[handler |-> handler, error |-> error, config |-> merged]>>,
     error |-> IF handler \in ThrowingHandlers THEN HandlerError(handler) ELSE error]

\* ErrorPolicy without the skipErrorHandler test
ErrorPolicyNoSkip(config, error, map, heap) ==
    LET instanceConfig ==
            InstanceConfig(map, heap,
                           CoalesceName(config.instanceName, DEFAULT_INSTANCE_NAME))
        merged == MergedConfig(config, instanceConfig)
    IN  IF Truthy(config.errorHandler)
        THEN Invoke(config.errorHandler, error, merged)
        ELSE IF instanceConfig.found /\ Truthy(instanceConfig.defaults.errorHandler)
        THEN Invoke(instanceConfig.defaults.errorHandler, error, merged)
        ELSE [invoked |-> <<>>, error |-> error]

\* ErrorPolicy trying the instance-level errorHandler before the call-level one
ErrorPolicyInstanceFirst(config, error, map, heap) ==
    IF Truthy(config.skipErrorHandler)
    THEN [invoked |-> <<>>, error |-> error]
    ELSE LET instanceConfig ==
                 InstanceConfig(map, heap,
                                CoalesceName(config.instanceName, DEFAULT_INSTANCE_NAME))
             merged == MergedConfig(config, instanceConfig)
         IN  IF instanceConfig.found /\ Truthy(instanceConfig.defaults.errorHandler)
             THEN Invoke(instanceConfig.defaults.errorHandler, error, merged)
             ELSE IF Truthy(config.errorHandler)
             THEN Invoke(config.errorHandler, error, merged)
             ELSE [invoked |-> <<>>, error |-> error]

\* the catch block of request(): [error, invoked], error what request()
\* rejects with, invoked the handler invocations made
ErrorPolicy(config, error, map, heap) ==
    IF Truthy(config.skipErrorHandler)
    THEN [invoked |-> <<>>, error |-> error]
    ELSE LET instanceConfig ==
                 InstanceConfig(map, heap,
                                CoalesceName(config.instanceName, DEFAULT_INSTANCE_NAME))
             merged == MergedConfig(config, instanceConfig)
         IN  IF Truthy(config.errorHandler)
             THEN Invoke(config.errorHandler, error, merged)
             ELSE IF instanceConfig.found /\ Truthy(instanceConfig.defaults.errorHandler)
             THEN Invoke(instanceConfig.defaults.errorHandler, error, merged)
             ELSE [invoked |-> <<>>, error |-> error]

NoResponse == [status |-> 0, data |-> ""]

NoValue == [is |-> "none", of |-> NoResponse]

\* mergedConfig.withFullResponse ? response : response.data
ResolvedValue(merged, response) ==
    IF Truthy(merged.withFullResponse)
    THEN [is |-> "response", of |-> response]
    ELSE [is |-> "response.data", of |-> response]

\* how instance.request(mergedConfig) settled
NoOutcome == [ok |-> FALSE, response |-> NoResponse, error |-> NoError]

Resolves(response) == [ok |-> TRUE, response |-> response, error |-> NoError]

Rejects(e) == [ok |-> FALSE, response |-> NoResponse, error |-> TransportError(e)]

NoneAttached == [request |-> <<>>, response |-> <<>>]

\* the identifiers captured by call that name an attached interceptor of
\* instance
StillAttached(instance, call) ==
    [request |-> SelectSeq(call.requestIds, LAMBDA id : Attached(instance.request, id)),
     response |-> SelectSeq(call.responseIds, LAMBDA id : Attached(instance.response, id))]

\* a request() invocation: pc is idle (not made), pending (at its await),
\* resolved or rejected; instance indexes instances (0: none was found);
\* value is what it resolved to, error what it rejected with, invoked the
\* error handler invocations it made, seen which of its one-shot interceptors
\* were attached when a handler was invoked
IdleCall ==
    [pc |-> "idle", config |-> EmptyConfig, instance |-> 0, merged |-> EmptyConfig,
     requestIds |-> <<>>, responseIds |-> <<>>, outcome |-> NoOutcome,
     value |-> NoValue, error |-> NoError, invoked |-> <<>>, seen |-> NoneAttached]

\* RequestBegin attaching the one-shot interceptors to a copy of the instance
\* made for the call: the shared chains are left as they were
RequestBeginScoped(config, map, heap) ==
    LET instanceName == CoalesceName(config.instanceName, DEFAULT_INSTANCE_NAME)
        found == getRequestInstance(map, instanceName)
    IN  IF found.thrown # NoError
        THEN LET p == ErrorPolicy(config, found.thrown, map, heap)
             IN  [call |-> [IdleCall EXCEPT !.pc = "rejected", !.config = config,
                                            !.error = p.error, !.invoked = p.invoked],
                  heap |-> heap]
        ELSE LET merged == MergedConfig(config, InstanceConfig(map, heap, instanceName))
                 a == addInterceptorsToInstance(heap[found.returned], merged, TRUE)
             IN  [call |-> [IdleCall EXCEPT !.pc = "pending", !.config = config,
                                            !.instance = found.returned,
                                            !.merged = merged,
                                            !.requestIds = a.requestIds,
                                            !.responseIds = a.responseIds],
                  heap |-> heap]

\* request(config) up to its await: the lookup, the merge and the attach of
\* the one-shot interceptors, or the catch block when the lookup throws;
\* [call, heap]
RequestBegin(config, map, heap) ==
    LET instanceName == CoalesceName(config.instanceName, DEFAULT_INSTANCE_NAME)
        found == getRequestInstance(map, instanceName)
    IN  IF found.thrown # NoError
        THEN LET p == ErrorPolicy(config, found.thrown, map, heap)
             IN  [call |-> [IdleCall EXCEPT !.pc = "rejected", !.config = config,
                                            !.error = p.error, !.invoked = p.invoked],
                  heap |-> heap]
        ELSE LET merged == MergedConfig(config, InstanceConfig(map, heap, instanceName))
                 a == addInterceptorsToInstance(heap[found.returned], merged, TRUE)
             IN  [call |-> [IdleCall EXCEPT !.pc = "pending", !.config = config,
                                            !.instance = found.returned,
                                            !.merged = merged,
                                            !.requestIds = a.requestIds,
                                            !.responseIds = a.responseIds],
                  heap |-> [heap EXCEPT ![found.returned] = a.instance]]

\* Cleanup that forgets the response side
CleanupRequestOnly(instance, call) ==
    [instance EXCEPT !.request = EjectAll(@, call.requestIds)]

\* Cleanup by interceptors.clear(): both chains are emptied
CleanupClear(instance, call) ==
    [instance EXCEPT !.request = <<>>, !.response = <<>>]

\* the finally block: requestIds.forEach(eject), then responseIds.forEach(eject)
Cleanup(instance, call) ==
    [instance EXCEPT !.request = EjectAll(@, call.requestIds),
                     !.response = EjectAll(@, call.responseIds)]

\* RequestEnd without the throw that ends the catch block: a failing call
\* whose handling is not skipped returns undefined
RequestEndNoRethrow(call, outcome, map, heap) ==
    LET cleaned == [heap EXCEPT ![call.instance] = Cleanup(@, call)]
    IN  IF outcome.ok
        THEN [call |-> [call EXCEPT !.pc = "resolved", !.outcome = outcome,
                                    !.value = ResolvedValue(call.merged, outcome.response)],
              heap |-> cleaned]
        ELSE LET p == ErrorPolicy(call.config, outcome.error, map, cleaned)
             IN  IF Truthy(call.config.skipErrorHandler)
                 THEN [call |-> [call EXCEPT !.pc = "rejected", !.outcome = outcome,
                                             !.error = p.error, !.invoked = p.invoked],
                       heap |-> cleaned]
                 ELSE [call |-> [call EXCEPT !.pc = "resolved", !.outcome = outcome,
                                             !.invoked = p.invoked],
                       heap |-> cleaned]

\* RequestEnd with the catch on the inner try: the error policy runs before
\* the finally block
RequestEndPolicyFirst(call, outcome, map, heap) ==
    LET cleaned == [heap EXCEPT ![call.instance] = Cleanup(@, call)]
    IN  IF outcome.ok
        THEN [call |-> [call EXCEPT !.pc = "resolved", !.outcome = outcome,
                                    !.value = ResolvedValue(call.merged, outcome.response)],
              heap |-> cleaned]
        ELSE LET p == ErrorPolicy(call.config, outcome.error, map, heap)
             IN  [call |-> [call EXCEPT !.pc = "rejected", !.outcome = outcome,
                                        !.error = p.error, !.invoked = p.invoked,
                                        !.seen = IF p.invoked = <<>> THEN NoneAttached
                                                 ELSE StillAttached(heap[call.instance], call)],
                  heap |-> cleaned]

\* request(config) from the moment instance.request(mergedConfig) settles:
\* the finally block, then the return or the catch block; [call, heap]
RequestEnd(call, outcome, map, heap) ==
    LET cleaned == [heap EXCEPT ![call.instance] = Cleanup(@, call)]
    IN  IF outcome.ok
        THEN [call |-> [call EXCEPT !.pc = "resolved", !.outcome = outcome,
                                    !.value = ResolvedValue(call.merged, outcome.response)],
              heap |-> cleaned]
        ELSE LET p == ErrorPolicy(call.config, outcome.error, map, cleaned)
             IN  [call |-> [call EXCEPT !.pc = "rejected", !.outcome = outcome,
                                        !.error = p.error, !.invoked = p.invoked,
                                        !.seen = IF p.invoked = <<>> THEN NoneAttached
                                                 ELSE StillAttached(cleaned[call.instance], call)],
                  heap |-> cleaned]

----------------------------------------------------------------------------
(* The operations as actions *)

NoConfigs == [form |-> "none", items |-> <<>>]

SingleConfig(config) == [form |-> "single", items |-> <<config>>]

ConfigList(configs) == [form |-> "list", items |-> configs]

NoCall == [op |-> "none", configs |-> NoConfigs, name |-> NameUndefined,
           thrown |-> NoError, console |-> <<>>, returned |-> 0]

\* defineRequestConfig(configs)
DefineRequestConfig(configs) ==
    LET r == defineRequestConfig(instanceMap, instances, configs)
    IN  /\ instanceMap' = r.map
        /\ instances' = r.instances
        /\ last' = [NoCall EXCEPT !.op = "defineRequestConfig", !.configs = configs,
                                  !.thrown = r.thrown, !.console = r.console]
        /\ UNCHANGED <<calls, walk>>

\* getRequestInstance(instanceName)
GetRequestInstance(instanceName) ==
    LET r == getRequestInstance(instanceMap, instanceName)
    IN  /\ last' = [NoCall EXCEPT !.op = "getRequestInstance", !.name = instanceName,
                                  !.thrown = r.thrown, !.returned = r.returned]
        /\ UNCHANGED <<instanceMap, instances, calls, walk>>

\* call c is made: request(config) runs to its await, or rejects at once
Request(c, config) ==
    /\ calls[c].pc = "idle"
    /\ \A d \in 1..(c - 1) : calls[d].pc # "idle"
    /\ LET r == RequestBegin(config, instanceMap, instances)
       IN  /\ calls' = [calls EXCEPT ![c] = r.call]
           /\ instances' = r.heap
    /\ UNCHANGED <<instanceMap, last, walk>>

\* the transport call of c settles and request() runs to its end
Settle(c, outcome) ==
    /\ calls[c].pc = "pending"
    /\ LET r == RequestEnd(calls[c], outcome, instanceMap, instances)
       IN  /\ calls' = [calls EXCEPT ![c] = r.call]
           /\ instances' = r.heap
    /\ UNCHANGED <<instanceMap, last, walk>>

Verbs == {"GET", "POST", "PUT", "DELETE", "PATCH", "HEAD", "OPTIONS"}

\* the verbs whose function takes a data argument: post, put, patch
BodyVerbs == {"POST", "PUT", "PATCH"}

\* VerbConfig with the spread last: the supplied configuration's own method,
\* url and data win over the arguments
VerbConfigDefaults(verb, url, data, config) ==
    [config EXCEPT !.method = IF @ # Undefined THEN @ ELSE verb,
                   !.url = IF @ # Undefined THEN @ ELSE url,
                   !.data = IF @ # Undefined \/ verb \notin BodyVerbs THEN @ ELSE data]

\* the configuration a verb function hands to request():
\* { ...config, method, url } and, for post/put/patch, { ...config, method, url, data };
\* an omitted config spreads to nothing and is given as EmptyConfig
VerbConfig(verb, url, data, config) ==
    [config EXCEPT !.method = verb,
                   !.url = url,
                   !.data = IF verb \in BodyVerbs THEN data ELSE @]

\* call c is made through httpRequest.get/post/put/delete/patch/head/options;
\* data is the data argument of post/put/patch
Verb(c, verb, url, data, config) == Request(c, VerbConfig(verb, url, data, config))

NoStep == [side |-> "none", decl |-> FunctionDecl(Undefined)]

\* acc is the run so far, before the run up to the last handle call, step
\* that call's side and declaration, steps the calls still to make
WalkIdle ==
    LET acc == [instance |-> AxiosCreate(EmptyConfig), requestIds |-> <<>>,
                responseIds |-> <<>>, id |-> INVALID_INTERCEPTOR_ID]
    IN  [acc |-> acc, before |-> acc, step |-> NoStep, steps |-> <<>>,
         isOneTime |-> FALSE]

\* addInterceptorsToInstance(instance, config, isOneTime) about to start
WalkStart(instance, config, isOneTime) ==
    [WalkIdle EXCEPT !.acc.instance = instance, !.before.instance = instance,
                     !.steps = AttachSteps(config), !.isOneTime = isOneTime]

\* the next iteration of addInterceptorsToInstance's loops
WalkStep ==
    /\ walk.steps # <<>>
    /\ walk' = [walk EXCEPT !.acc = AttachOne(walk.acc, Head(walk.steps), walk.isOneTime),
                            !.before = walk.acc,
                            !.step = Head(walk.steps),
                            !.steps = Tail(walk.steps)]
    /\ UNCHANGED <<instanceMap, instances, calls, last>>

----------------------------------------------------------------------------
(* Initial state: nothing registered, no call made *)

Init ==
    /\ instanceMap = <<>>
    /\ instances = <<>>
    /\ calls = [c \in 1..MaxCalls |-> IdleCall]
    /\ last = NoCall
    /\ walk = WalkIdle

SeqUpTo(S, n) == UNION {[1..k -> S] : k \in 0..n}

----------------------------------------------------------------------------
(* SpecRegistry: defineRequestConfig and getRequestInstance over unnamed,   *)
(* symbol, string and empty-string names, single configurations and lists  *)

RegistryNames ==
    {NameUndefined, DEFAULT_INSTANCE_NAME, StringName("a"), StringName("")}

\* one configuration per name, and a second one for 'a' to tell two
\* configurations of the same name apart
RegistryConfigs ==
    {PlainConfig(n, Undefined, Undefined, Undefined) : n \in RegistryNames}
        \cup {PlainConfig(StringName("a"), Undefined, "true", Undefined)}

RegistryInputs ==
    {SingleConfig(c) : c \in RegistryConfigs}
        \cup {ConfigList(cs) : cs \in SeqUpTo(RegistryConfigs, MaxConfigs)}

LookupNames == RegistryNames \cup {StringName("missing"), SymbolFor("x")}

RegistryDefine == \E configs \in RegistryInputs : DefineRequestConfig(configs)

RegistryGet == \E n \in LookupNames : GetRequestInstance(n)

NextRegistry == RegistryDefine \/ RegistryGet

SpecRegistry == Init /\ [][NextRegistry]_vars

----------------------------------------------------------------------------
(* SpecPolicy: request() on a registry of a default instance and an         *)
(* instance 'a', over the call-level and instance-level values of           *)
(* skipErrorHandler, withFullResponse and errorConfig.errorHandler          *)

Flags == {Undefined, "true", "false"}

PolicyDefaults ==
    {PlainConfig(NameUndefined, s, f, h) :
        s \in {Undefined, "true"}, f \in Flags, h \in {Undefined, "instanceHandler"}}

PolicyNamed ==
    {PlainConfig(StringName("a"), Undefined, "true", "instanceHandlerA")}

\* the lists of configurations registered before the calls are made
PolicyRegistrations ==
    {<<>>} \cup {<<d>> : d \in PolicyDefaults}
           \cup {<<d, a>> : d \in PolicyDefaults, a \in PolicyNamed}

PolicyRequests ==
    {PlainConfig(n, s, f, h) :
        n \in {NameUndefined, StringName("a"), StringName("missing")},
        s \in Flags, f \in Flags,
        h \in {Undefined, "callHandler", "callHandlerThrows"}}

Outcomes == {Resolves([status |-> 200, data |-> "payload"]), Rejects("Network Error")}

InitPolicy ==
    \E cs \in PolicyRegistrations :
        LET r == defineRequestConfig(<<>>, <<>>, ConfigList(cs))
        IN  /\ instanceMap = r.map
            /\ instances = r.instances
            /\ last = [NoCall EXCEPT !.op = "defineRequestConfig",
                                     !.configs = ConfigList(cs),
                                     !.thrown = r.thrown, !.console = r.console]
            /\ calls = [c \in 1..MaxCalls |-> IdleCall]
            /\ walk = WalkIdle

PolicyRequest ==
    \E c \in 1..MaxPolicyCalls : \E config \in PolicyRequests : Request(c, config)

PolicySettle ==
    \E c \in 1..MaxPolicyCalls : \E outcome \in Outcomes : Settle(c, outcome)

NextPolicy == PolicyRequest \/ PolicySettle

SpecPolicy == InitPolicy /\ [][NextPolicy]_vars

----------------------------------------------------------------------------
(* Spec: the whole module. Instances are registered with and without        *)
(* permanent interceptors, and request() calls, which may overlap, attach   *)
(* one-shot interceptors of every shape and succeed or fail                 *)

\* the README's defaultRequestConfig: no name, no errorConfig, one
\* interceptor object per side
ReadmeConfig ==
    Config(NameUndefined, Undefined, Undefined, Undefined,
           SingleInterceptor(ObjectDecl("auth", TRUE, "auth.onConfig", Undefined)),
           SingleInterceptor(ObjectDecl("unwrap", TRUE, "unwrap.onConfig", "unwrap.onError")),
           NoInterceptors, NoInterceptors)

\* an instance 'a' with withFullResponse, an instance-level errorHandler and
\* its interceptors in the deprecated flat lists
LegacyConfig ==
    Config(StringName("a"), Undefined, "true", "instanceHandler",
           NoInterceptors, NoInterceptors,
           InterceptorList(<<FunctionDecl("sign")>>),
           InterceptorList(<<ArrayDecl("retry", <<"retry.onFulfilled", "retry.onRejected">>)>>))

SystemConfigs == {ReadmeConfig, LegacyConfig}

\* the one-shot interceptor declarations of a call, [ireq, ires, freq, fres]:
\* none, or every shape in every source (an object with onConfig, an object
\* whose onConfig is undefined, an object without the onConfig key, a bare
\* function, a two-element and a one-element array)
OneShots ==
    {[ireq |-> NoInterceptors, ires |-> NoInterceptors,
      freq |-> NoInterceptors, fres |-> NoInterceptors],
     [ireq |-> InterceptorList(<<ObjectDecl("off", TRUE, Undefined, "off.onError"),
                                 ObjectDecl("once", TRUE, "once.onConfig", Undefined)>>),
      ires |-> InterceptorList(<<FunctionDecl("log"),
                                 ObjectDecl("errorsOnly", FALSE, Undefined, "errorsOnly.onError")>>),
      freq |-> InterceptorList(<<ArrayDecl("trace", <<"trace.onFulfilled", "trace.onRejected">>)>>),
      fres |-> InterceptorList(<<ArrayDecl("time", <<"time.onFulfilled">>)>>)]}

SystemRequests ==
    {Config(n, Undefined, Undefined, h, o.ireq, o.ires, o.freq, o.fres) :
        n \in {NameUndefined, StringName("a")},
        h \in {Undefined, "callHandlerThrows"},
        o \in OneShots}

SystemDefine == \E config \in SystemConfigs : DefineRequestConfig(SingleConfig(config))

SystemGet == \E n \in {NameUndefined, StringName("a")} : GetRequestInstance(n)

SystemRequest ==
    \E c \in 1..MaxCalls : \E config \in SystemRequests : Request(c, config)

SystemSettle ==
    \E c \in 1..MaxCalls : \E outcome \in Outcomes : Settle(c, outcome)

Next == SystemDefine \/ SystemGet \/ SystemRequest \/ SystemSettle

Spec == Init /\ [][Next]_vars

----------------------------------------------------------------------------
(* SpecSugar: the verb functions, called on a registry of the README's     *)
(* default instance and the instance 'a', with the config argument omitted *)
(* or carrying every field, method, url and data included                  *)

SugarRegistrations == {<<ReadmeConfig>>, <<ReadmeConfig, LegacyConfig>>}

\* a config argument that sets every field, with a method, url and data of
\* its own
StaleConfig ==
    [Config(StringName("a"), "true", "false", "callHandler",
            SingleInterceptor(ObjectDecl("once", TRUE, "once.onConfig", Undefined)),
            InterceptorList(<<FunctionDecl("log")>>),
            NoInterceptors, NoInterceptors)
        EXCEPT !.method = "DELETE", !.url = "/stale", !.data = "stale"]

\* a config argument for the default instance that sets data and asks for
\* the full response
BodyConfig == [EmptyConfig EXCEPT !.withFullResponse = "true", !.data = "query"]

SugarConfigs == {EmptyConfig, BodyConfig, StaleConfig}

SugarUrls == {"/users"}

SugarData == {Undefined, "body"}

InitSugar ==
    \E cs \in SugarRegistrations :
        LET r == defineRequestConfig(<<>>, <<>>, ConfigList(cs))
        IN  /\ instanceMap = r.map
            /\ instances = r.instances
            /\ last = [NoCall EXCEPT !.op = "defineRequestConfig",
                                     !.configs = ConfigList(cs),
                                     !.thrown = r.thrown, !.console = r.console]
            /\ calls = [c \in 1..MaxCalls |-> IdleCall]
            /\ walk = WalkIdle

SugarVerb ==
    \E c \in 1..MaxPolicyCalls : \E verb \in Verbs, url \in SugarUrls :
        \E data \in (IF verb \in BodyVerbs THEN SugarData ELSE {Undefined}) :
            \E config \in SugarConfigs : Verb(c, verb, url, data, config)

SugarSettle ==
    \E c \in 1..MaxPolicyCalls : \E outcome \in Outcomes : Settle(c, outcome)

NextSugar == SugarVerb \/ SugarSettle

SpecSugar == InitSugar /\ [][NextSugar]_vars

----------------------------------------------------------------------------
(* SpecNormalizer: addInterceptorsToInstance, one handle call at a time,    *)
(* over every declaration shape in every source of a configuration          *)

ObjectDecls ==
    {ObjectDecl("both", TRUE, "both.onConfig", "both.onError"),
     ObjectDecl("only", TRUE, "only.onConfig", Undefined),
     ObjectDecl("off", TRUE, Undefined, "off.onError"),
     ObjectDecl("errorsOnly", FALSE, Undefined, "errorsOnly.onError")}

AllDecls ==
    ObjectDecls \cup
    {FunctionDecl("fn"),
     ArrayDecl("pair", <<"pair.onFulfilled", "pair.onRejected">>),
     ArrayDecl("solo", <<"solo.onFulfilled">>)}

\* the values of config.interceptors.request / .response with lists of up to
\* n declarations
NestedInputs(n) ==
    {NoInterceptors}
        \cup {SingleInterceptor(d) : d \in ObjectDecls}
        \cup {InterceptorList(ds) : ds \in SeqUpTo(AllDecls, n)}

\* requestInterceptors and responseInterceptors, both absent or both given
FlatInputs ==
    {[freq |-> NoInterceptors, fres |-> NoInterceptors],
     [freq |-> InterceptorList(<<FunctionDecl("legacy")>>),
      fres |-> InterceptorList(<<ArrayDecl("legacyPair", <<"legacy.onFulfilled",
                                                           "legacy.onRejected">>)>>)]}

NestedPairs ==
    (NestedInputs(MaxDecls) \X NestedInputs(1))
        \cup (NestedInputs(1) \X NestedInputs(MaxDecls))

\* the instance the run works on: new, or holding a permanent interceptor
\* on each side
WalkInstances ==
    {AxiosCreate(EmptyConfig),
     addInterceptorsToInstance(AxiosCreate(ReadmeConfig), ReadmeConfig, FALSE).instance}

InitNormalizer ==
    /\ instanceMap = <<>>
    /\ instances = <<>>
    /\ calls = [c \in 1..MaxCalls |-> IdleCall]
    /\ last = NoCall
    /\ \E nested \in NestedPairs, flat \in FlatInputs,
          instance \in WalkInstances, isOneTime \in BOOLEAN :
           walk = WalkStart(instance,
                            Config(NameUndefined, Undefined, Undefined, Undefined,
                                   nested[1], nested[2], flat.freq, flat.fres),
                            isOneTime)

NextNormalizer == WalkStep

SpecNormalizer == InitNormalizer /\ [][NextNormalizer]_vars

----------------------------------------------------------------------------
(* Steps, as seen from the record the operation leaves in last *)

\* this step is a defineRequestConfig(last'.configs) call
DefineStep ==
    /\ last'.op = "defineRequestConfig"
    /\ DefineRequestConfig(last'.configs)

\* this step is a getRequestInstance(last'.name) call
GetStep ==
    /\ last'.op = "getRequestInstance"
    /\ GetRequestInstance(last'.name)

RegistryUnchanged == instanceMap' = instanceMap /\ instances' = instances

\* the first (or only) configuration of the last defineRequestConfig call
FirstConfig(call) == Head(call.configs.items)

\* the instances created for a configuration that resolves to name key
RegisteredUnder(key) ==
    {i \in 1..Len(instances) :
        CoalesceName(instances[i].defaults.instanceName, DEFAULT_INSTANCE_NAME) = key}

----------------------------------------------------------------------------
(* Claims about the registry *)

\* C1: once a name n is registered, a defineRequestConfig call given a
\* configuration with the explicit instanceName n (alone, or first in a list)
\* throws the duplicate-instance error naming n and leaves the registry as it
\* was: the same names, each mapped to the same instance.
C1_DuplicateExplicitName ==
    [][(/\ DefineStep
        /\ last'.configs.items # <<>>
        /\ FirstConfig(last').instanceName # NameUndefined
        /\ Has(instanceMap, FirstConfig(last').instanceName))
       => (/\ last'.thrown.kind = "Instance already exists, cannot be defined again"
           /\ last'.thrown.name = StringOf(FirstConfig(last').instanceName)
           /\ RegistryUnchanged)]_vars

\* C1 witness: a single configuration named 'a' was refused as a duplicate
C1_Witness ==
    /\ last.op = "defineRequestConfig"
    /\ last.configs = SingleConfig(PlainConfig(StringName("a"), Undefined, Undefined, Undefined))
    /\ last.thrown = DuplicateInstanceError(StringName("a"))
    /\ Has(instanceMap, StringName("a"))

\* C2 (as claimed): a second unnamed configuration, given after a first
\* unnamed configuration became the default instance, is a silent no-op: only
\* the warning, no error, the registry unchanged.
C2_SecondUnnamedIsNoOp ==
    [][(/\ DefineStep
        /\ last'.configs.form = "single"
        /\ FirstConfig(last').instanceName = NameUndefined
        /\ Has(instanceMap, DEFAULT_INSTANCE_NAME)
        /\ instances[instanceMap[DEFAULT_INSTANCE_NAME]].defaults.instanceName
               = NameUndefined)
       => (/\ last'.thrown = NoError
           /\ last'.console = <<WarnIgnored>>
           /\ RegistryUnchanged)]_vars

\* C3 (as claimed): an unnamed configuration given while a default instance
\* exists fails with the default-exists/name-required error, and nothing is
\* created or stored.
C3_UnnamedAfterDefault ==
    [][(/\ DefineStep
        /\ last'.configs.form = "single"
        /\ FirstConfig(last').instanceName = NameUndefined
        /\ Has(instanceMap, DEFAULT_INSTANCE_NAME))
       => (/\ last'.thrown = DefaultExistsError
           /\ RegistryUnchanged)]_vars

\* what the not-found error names: String(instanceName ?? DEFAULT_INSTANCE_NAME)
RequestedIdentifier(name) ==
    IF name = NameUndefined THEN "Symbol(default)"
    ELSE IF name.type = "symbol" THEN "Symbol(" \o name.key \o ")"
    ELSE name.key

\* the state left by a getRequestInstance call agrees with the registrations
LookupAnswer ==
    last.op = "getRequestInstance" =>
        LET key == IF last.name = NameUndefined THEN DEFAULT_INSTANCE_NAME
                   ELSE last.name
        IN  IF RegisteredUnder(key) # {}
            THEN /\ last.thrown = NoError
                 /\ RegisteredUnder(key) = {last.returned}
            ELSE /\ last.thrown.kind = "Axios instance not found for instanceName"
                 /\ last.thrown.name = RequestedIdentifier(last.name)
                 /\ last.returned = 0

\* C4: getRequestInstance(name) returns the instance created for the
\* configuration registered under name (under the default sentinel when name
\* is omitted), throws the not-found error naming the requested identifier
\* exactly when nothing was registered under it, and never changes the
\* registry.
C4_LookupReturnsRegistered ==
    /\ []LookupAnswer
    /\ [][GetStep => RegistryUnchanged]_vars

\* C4 witness: with an instance registered under 'a', a lookup of 'a'
\* returned it, and (in another run) a lookup of 'missing' threw
C4_Witness ==
    /\ last.op = "getRequestInstance"
    /\ last.name = StringName("a")
    /\ last.returned > 0
    /\ instances[last.returned].defaults.instanceName = StringName("a")

----------------------------------------------------------------------------
(* Claims about the error policy and the resolved value of request() *)

Made == {c \in 1..MaxCalls : calls[c].pc # "idle"}

Failed == {c \in Made : calls[c].pc = "rejected"}

\* call c failed at the lookup: its instance name is not registered
NotFound(c) == c \in Failed /\ calls[c].instance = 0

\* the error call c failed with before any handler ran
OriginalError(c) ==
    IF NotFound(c)
    THEN [kind |-> "Axios instance not found for instanceName",
          name |-> RequestedIdentifier(calls[c].config.instanceName)]
    ELSE calls[c].outcome.error

\* the instance-level errorHandler of the instance call c addresses
InstanceHandler(c) ==
    IF calls[c].instance = 0 THEN Undefined
    ELSE instances[calls[c].instance].defaults.errorHandler

\* the full-response flag call c resolves: the call-level one when defined,
\* else the registered default of its instance
ResolvedFlag(c) ==
    IF calls[c].config.withFullResponse # Undefined
    THEN calls[c].config.withFullResponse
    ELSE IF calls[c].instance = 0 THEN Undefined
    ELSE instances[calls[c].instance].defaults.withFullResponse

\* C6 (as claimed): a request() naming an unregistered instance rejects with
\* the not-found error and no errorHandler is invoked with it, whatever
\* skipErrorHandler is.
C6_NotFoundBypassesPolicy ==
    \A c \in Failed :
        NotFound(c) =>
            /\ calls[c].invoked = <<>>
            /\ calls[c].error = OriginalError(c)

\* C7: a failing request() made with skipErrorHandler: true rejects with the
\* original error and invokes no errorHandler, call-level or instance-level.
C7_SkipInvokesNoHandler ==
    \A c \in Failed :
        calls[c].config.skipErrorHandler = "true" =>
            /\ calls[c].invoked = <<>>
            /\ calls[c].error = OriginalError(c)

\* C7 witness: a transport failure with skipErrorHandler: true where both a
\* call-level and an instance-level errorHandler are defined
C7_Witness ==
    \E c \in Failed :
        /\ calls[c].config.skipErrorHandler = "true"
        /\ calls[c].config.errorHandler = "callHandler"
        /\ InstanceHandler(c) = "instanceHandler"
        /\ calls[c].error = TransportError("Network Error")

\* C8: a failing request() without skipErrorHandler invokes at most one
\* errorHandler, once: the call-level one when defined, else the instance-level
\* one of the registered defaults when defined, else none; it is given the
\* error and the merged configuration.
C8_OneHandlerCallLevelFirst ==
    \A c \in Failed :
        calls[c].config.skipErrorHandler # "true" =>
            LET chosen == IF calls[c].config.errorHandler # Undefined
                          THEN calls[c].config.errorHandler
                          ELSE InstanceHandler(c)
            IN  IF chosen = Undefined
                THEN calls[c].invoked = <<>>
                ELSE calls[c].invoked =
                         <<[handler |-> chosen,
                            error |-> OriginalError(c),
                            config |-> [calls[c].config EXCEPT
                                           !.withFullResponse = ResolvedFlag(c)]]>>

\* C8 witness: a transport failure where both handlers are defined and the
\* call-level one was the one invoked
C8_Witness ==
    \E c \in Failed :
        /\ calls[c].config.skipErrorHandler = Undefined
        /\ calls[c].config.errorHandler = "callHandler"
        /\ InstanceHandler(c) = "instanceHandler"
        /\ calls[c].outcome.error = TransportError("Network Error")
        /\ Len(calls[c].invoked) = 1
        /\ calls[c].invoked[1].handler = "callHandler"

\* C9: a successful request() resolves to the full response when the resolved
\* flag (call-level withFullResponse when defined, else the instance's
\* registered default) is true, and to response.data otherwise.
C9_FullResponseFlag ==
    \A c \in Made :
        calls[c].pc = "resolved" =>
            /\ calls[c].value.of = calls[c].outcome.response
            /\ calls[c].value.is =
                   IF ResolvedFlag(c) = "true" THEN "response" ELSE "response.data"

\* C9 witness: call-level false over an instance default of true resolved to
\* response.data
C9_Witness ==
    \E c \in Made :
        /\ calls[c].pc = "resolved"
        /\ calls[c].config.withFullResponse = "false"
        /\ instances[calls[c].instance].defaults.withFullResponse = "true"
        /\ calls[c].value = [is |-> "response.data",
                             of |-> [status |-> 200, data |-> "payload"]]

----------------------------------------------------------------------------
(* Claims about the interceptor chains *)

\* instance i as defineRequestConfig left it: its configuration's permanent
\* interceptors attached to new chains
AsRegistered(i) ==
    addInterceptorsToInstance(AxiosCreate(instances[i].defaults),
                              instances[i].defaults, FALSE).instance

InFlight(i) == {c \in Made : calls[c].pc = "pending" /\ calls[c].instance = i}

\* chain is registered followed by ejected slots only
OnlyEjectedAfter(chain, registered) ==
    /\ Len(chain) >= Len(registered)
    /\ SubSeq(chain, 1, Len(registered)) = registered
    /\ \A k \in (Len(registered) + 1)..Len(chain) : chain[k] = NullHandler

\* C5: whenever no request() call on an instance is in flight, its request
\* and response chains hold exactly the interceptors attached at
\* defineRequestConfig time: every one-shot interceptor has been ejected,
\* whether its call succeeded or failed, and no permanent one has.
C5_ChainsRestored ==
    \A i \in 1..Len(instances) :
        InFlight(i) = {} =>
            /\ OnlyEjectedAfter(instances[i].request, AsRegistered(i).request)
            /\ OnlyEjectedAfter(instances[i].response, AsRegistered(i).response)
            /\ \A k \in 1..Len(AsRegistered(i).request) :
                   instances[i].request[k] # NullHandler
            /\ \A k \in 1..Len(AsRegistered(i).response) :
                   instances[i].response[k] # NullHandler

\* C5 witness: on an instance with permanent interceptors, one call that
\* attached one-shot interceptors resolved and another rejected, none is in
\* flight, and both chains have ejected slots
C5_Witness ==
    \E i \in 1..Len(instances) :
        /\ InFlight(i) = {}
        /\ AsRegistered(i).request # <<>>
        /\ \E c, d \in Made :
               /\ calls[c].instance = i /\ calls[c].pc = "resolved"
               /\ calls[c].requestIds # <<>> /\ calls[c].responseIds # <<>>
               /\ calls[d].instance = i /\ calls[d].pc = "rejected"
               /\ calls[d].requestIds # <<>> /\ calls[d].responseIds # <<>>
        /\ Len(instances[i].request) > Len(AsRegistered(i).request)
        /\ Len(instances[i].response) > Len(AsRegistered(i).response)

\* C10 (as claimed): on either side, normalizing an object-shape declaration
\* without an onConfig callback (the key absent, or present but undefined)
\* adds nothing to the chain, returns -1, and adds no identifier to the
\* one-shot removal lists.
C10_ObjectWithoutOnConfigSkipped ==
    (/\ walk.step.side # "none"
     /\ walk.step.decl.shape = "object"
     /\ walk.step.decl.onConfig = Undefined)
    => (/\ walk.acc.id = INVALID_INTERCEPTOR_ID
        /\ walk.acc.instance = walk.before.instance
        /\ walk.acc.requestIds = walk.before.requestIds
        /\ walk.acc.responseIds = walk.before.responseIds)

----------------------------------------------------------------------------
(* Claims about the failure path of request() *)

\* call c has settled after its transport call rejected
TransportFailed(c) ==
    /\ calls[c].pc \in {"resolved", "rejected"}
    /\ calls[c].instance # 0
    /\ ~calls[c].outcome.ok

\* the handlers call c invoked all returned normally (or none was invoked)
HandlersReturned(c) ==
    \A k \in 1..Len(calls[c].invoked) : calls[c].invoked[k].handler \notin ThrowingHandlers

\* C11: when the transport call of request() rejects, request() never
\* resolves, and it rejects with the transport error itself whenever no
\* handler exists, handling is skipped, or the invoked handler returns
\* normally.
C11_HandlerCannotRecover ==
    \A c \in Made :
        TransportFailed(c) =>
            /\ calls[c].pc = "rejected"
            /\ calls[c].value = NoValue
            /\ HandlersReturned(c) =>
                   /\ calls[c].error.kind = "transport"
                   /\ calls[c].error = calls[c].outcome.error

\* C11 witness: the instance-level handler was invoked for a transport
\* failure, returned normally, and the call rejected with the transport error
C11_Witness ==
    \E c \in Made :
        /\ TransportFailed(c)
        /\ Len(calls[c].invoked) = 1
        /\ calls[c].invoked[1].handler = "instanceHandler"
        /\ calls[c].pc = "rejected"
        /\ calls[c].error = [kind |-> "transport", name |-> "Network Error"]

----------------------------------------------------------------------------
(* Claims about the verb functions *)

\* the configuration the verb call is to be equivalent to, field by field
SugarExpected(verb, url, data, config) ==
    [instanceName |-> config.instanceName,
     skipErrorHandler |-> config.skipErrorHandler,
     withFullResponse |-> config.withFullResponse,
     errorHandler |-> config.errorHandler,
     interceptorsRequest |-> config.interceptorsRequest,
     interceptorsResponse |-> config.interceptorsResponse,
     requestInterceptors |-> config.requestInterceptors,
     responseInterceptors |-> config.responseInterceptors,
     method |-> verb,
     url |-> url,
     data |-> IF verb \in {"POST", "PUT", "PATCH"} THEN data ELSE config.data]

\* a get(url) call without a config argument, addressed to the default
\* instance, has resolved
PlainGetResolved(c) ==
    /\ calls[c].pc = "resolved"
    /\ calls[c].config = [EmptyConfig EXCEPT !.method = "GET", !.url = "/users"]
    /\ instances[calls[c].instance].defaults.instanceName = NameUndefined

\* C12: a call of a verb function is a call of request() with the supplied
\* configuration in which method is the verb, url the url argument and, for
\* post/put/patch, data the data argument, whatever method, url or data the
\* supplied configuration holds, and every other field as supplied; so
\* get(url) on a default instance without withFullResponse resolves to
\* response.data.
C12_VerbIsRequest ==
    /\ [][\A c \in 1..MaxPolicyCalls, verb \in Verbs, url \in SugarUrls,
             data \in SugarData, config \in SugarConfigs :
               Verb(c, verb, url, data, config)
                   => Request(c, SugarExpected(verb, url, data, config))]_vars
    /\ [](\A c \in Made :
              (PlainGetResolved(c)
               /\ instances[calls[c].instance].defaults.withFullResponse = Undefined)
                  => calls[c].value = [is |-> "response.data",
                                       of |-> calls[c].outcome.response])

\* C12 witness: get('/users') resolved to response.data on the default
\* instance
C12_Witness ==
    \E c \in Made :
        /\ PlainGetResolved(c)
        /\ calls[c].value = [is |-> "response.data",
                             of |-> [status |-> 200, data |-> "payload"]]

\* C13 (as claimed): the skip decision is taken from the merged
\* configuration: a failing request() whose call-level configuration leaves
\* skipErrorHandler unset, on an instance registered with skipErrorHandler:
\* true, rethrows the transport error at once and invokes no errorHandler,
\* call-level or instance-level.
C13_SkipFromInstanceDefaults ==
    \A c \in Made :
        (/\ TransportFailed(c)
         /\ calls[c].config.skipErrorHandler = Undefined
         /\ instances[calls[c].instance].defaults.skipErrorHandler = "true")
        => (/\ calls[c].pc = "rejected"
            /\ calls[c].invoked = <<>>
            /\ calls[c].error = calls[c].outcome.error)

----------------------------------------------------------------------------
(* Claims about overlapping request() calls *)

IdSet(ids) == {ids[k] : k \in DOMAIN ids}

\* the calls whose transport call settles in this step
Settling == {c \in Made : calls[c].pc = "pending" /\ calls'[c].pc # "pending"}

\* every one-shot interceptor of a call in flight is attached, past the
\* permanent ones, and no two calls hold the same identifier of a chain
OwnIdentifiers ==
    \A i \in 1..Len(instances) :
        LET registered == AsRegistered(i)
            permanentRequest == Len(registered.request)
            permanentResponse == Len(registered.response)
            on == {c \in Made : calls[c].instance = i}
        IN  /\ Len(instances[i].request) >= permanentRequest
            /\ Len(instances[i].response) >= permanentResponse
            /\ SubSeq(instances[i].request, 1, permanentRequest) = registered.request
            /\ SubSeq(instances[i].response, 1, permanentResponse) = registered.response
            /\ \A c \in on :
                   /\ calls[c].pc = "pending" =>
                          /\ \A id \in IdSet(calls[c].requestIds) :
                                 /\ Attached(instances[i].request, id)
                                 /\ id >= permanentRequest
                          /\ \A id \in IdSet(calls[c].responseIds) :
                                 /\ Attached(instances[i].response, id)
                                 /\ id >= permanentResponse
                   /\ \A d \in on \ {c} :
                          /\ IdSet(calls[c].requestIds) \cap IdSet(calls[d].requestIds) = {}
                          /\ IdSet(calls[c].responseIds) \cap IdSet(calls[d].responseIds) = {}

\* a slot of a chain changes in a step only when a call settles that holds
\* the slot's identifier
EjectedByOwner ==
    \A i \in 1..Len(instances) :
        /\ Len(instances'[i].request) >= Len(instances[i].request)
        /\ Len(instances'[i].response) >= Len(instances[i].response)
        /\ \A k \in 1..Len(instances[i].request) :
               instances'[i].request[k] # instances[i].request[k] =>
                   \E c \in Settling :
                       calls[c].instance = i /\ (k - 1) \in IdSet(calls[c].requestIds)
        /\ \A k \in 1..Len(instances[i].response) :
               instances'[i].response[k] # instances[i].response[k] =>
                   \E c \in Settling :
                       calls[c].instance = i /\ (k - 1) \in IdSet(calls[c].responseIds)

\* C14: when request() calls on one instance overlap, the cleanup of a call
\* ejects only the identifiers that call captured when it attached: the
\* one-shot interceptors of a call still in flight stay attached, the
\* permanent interceptors stay attached, and no identifier of a chain is held
\* by two calls.
C14_CleanupEjectsOwnIdentifiers ==
    /\ []OwnIdentifiers
    /\ [][EjectedByOwner]_vars

\* C14 witness: of two calls on an instance with permanent interceptors, one
\* has settled and its one-shot interceptors are ejected, the other is in
\* flight and all of its own are attached
C14_Witness ==
    \E c, d \in Made :
        /\ calls[c].instance = calls[d].instance
        /\ calls[c].instance # 0
        /\ AsRegistered(calls[c].instance).request # <<>>
        /\ calls[c].pc = "resolved"
        /\ calls[d].pc = "pending"
        /\ calls[c].requestIds # <<>> /\ calls[c].responseIds # <<>>
        /\ calls[d].requestIds # <<>> /\ calls[d].responseIds # <<>>
        /\ \A id \in IdSet(calls[c].requestIds) :
               ~Attached(instances[calls[c].instance].request, id)
        /\ \A id \in IdSet(calls[d].requestIds) :
               Attached(instances[calls[d].instance].request, id)
        /\ \A id \in IdSet(calls[d].responseIds) :
               Attached(instances[calls[d].instance].response, id)

\* the calls that attach and dispatch in this step: the state the step leaves
\* is the one instance.request(mergedConfig) is called in
Dispatching == {d \in 1..MaxCalls : calls[d].pc = "idle" /\ calls'[d].pc = "pending"}

\* C15: one-shot interceptors are attached to the chains of the shared
\* instance: whenever a call B attaches and dispatches while a call A on the
\* same instance is in flight, every one-shot interceptor of A is in the
\* chains B's request is dispatched on, next to B's own; and such an
\* interleaving is reachable (the witness).
C15_OneShotsSharedAcrossCalls ==
    [][\A b \in Dispatching :
           /\ \A id \in IdSet(calls'[b].requestIds) :
                  Attached(instances'[calls'[b].instance].request, id)
           /\ \A a \in Made :
                  (calls[a].pc = "pending" /\ calls[a].instance = calls'[b].instance)
                  => /\ \A id \in IdSet(calls[a].requestIds) :
                            Attached(instances'[calls[a].instance].request, id)
                     /\ \A id \in IdSet(calls[a].responseIds) :
                            Attached(instances'[calls[a].instance].response, id)]_vars

\* C15 witness: B has attached and dispatched between A's attach and A's
\* cleanup: both are in flight on one instance, A's one-shot interceptors
\* precede B's in the request chain, and all of them are attached
C15_Witness ==
    \E a, b \in Made :
        /\ a # b
        /\ calls[a].pc = "pending" /\ calls[b].pc = "pending"
        /\ calls[a].instance = calls[b].instance
        /\ calls[a].requestIds # <<>> /\ calls[b].requestIds # <<>>
        /\ \A x \in IdSet(calls[a].requestIds), y \in IdSet(calls[b].requestIds) : x < y
        /\ \A x \in IdSet(calls[a].requestIds) \cup IdSet(calls[b].requestIds) :
               Attached(instances[calls[a].instance].request, x)

\* C16: within a failing request() call the one-shot interceptors are
\* attached, the transport call rejects, every captured identifier is ejected
\* from the request chain and the response chain, and only then is the error
\* policy applied: when an errorHandler is invoked for a transport failure,
\* none of the call's one-shot interceptors is attached to either chain.
C16_EjectedBeforeHandler ==
    \A c \in Made :
        (TransportFailed(c) /\ calls[c].invoked # <<>>) =>
            /\ calls[c].seen.request = <<>>
            /\ calls[c].seen.response = <<>>
            /\ \A id \in IdSet(calls[c].requestIds) :
                   ~Attached(instances[calls[c].instance].request, id)
            /\ \A id \in IdSet(calls[c].responseIds) :
                   ~Attached(instances[calls[c].instance].response, id)

\* C16 witness: a call that attached one-shot interceptors to both chains
\* failed, the instance-level handler was invoked, and it found none of them
\* attached
C16_Witness ==
    \E c \in Made :
        /\ TransportFailed(c)
        /\ calls[c].requestIds # <<>> /\ calls[c].responseIds # <<>>
        /\ Len(calls[c].invoked) = 1
        /\ calls[c].invoked[1].handler = "instanceHandler"
        /\ calls[c].invoked[1].error = TransportError("Network Error")
        /\ calls[c].seen = NoneAttached

----------------------------------------------------------------------------
(* Claims about the registry over time *)

\* every registered name stays registered to the same instance, and that
\* instance keeps the configuration it was created with
EntriesKept ==
    /\ \A n \in DOMAIN instanceMap :
           /\ n \in DOMAIN instanceMap'
           /\ instanceMap'[n] = instanceMap[n]
    /\ Len(instances') >= Len(instances)
    /\ \A i \in 1..Len(instances) : instances'[i].defaults = instances[i].defaults

\* C17: the registry only grows and its entries are never rebound: in every
\* step a registered name stays registered and mapped to the instance its
\* first successful registration created; a defineRequestConfig call that
\* throws for its configuration changes nothing, and getRequestInstance and
\* request(), successful or failing, never add, remove or replace an entry.
C17_RegistryOnlyGrows ==
    [][/\ EntriesKept
       /\ (DefineStep /\ last'.thrown # NoError /\ last'.configs.form = "single")
              => RegistryUnchanged
       /\ ~DefineStep => (instanceMap' = instanceMap /\ Len(instances') = Len(instances))]_vars

\* C17 witness: with the default instance and 'a' registered, a call has
\* resolved, another has been rejected, and the last defineRequestConfig call
\* threw: both names are still mapped to the instances created for them
C17_Witness ==
    /\ DOMAIN instanceMap = {DEFAULT_INSTANCE_NAME, StringName("a")}
    /\ instances[instanceMap[DEFAULT_INSTANCE_NAME]].defaults = ReadmeConfig
    /\ instances[instanceMap[StringName("a")]].defaults = LegacyConfig
    /\ last.op = "defineRequestConfig"
    /\ last.thrown # NoError
    /\ \E c, d \in Made : calls[c].pc = "resolved" /\ calls[d].pc = "rejected"

\* the name a configuration registers under
RegistrationName(config) == CoalesceName(config.instanceName, DEFAULT_INSTANCE_NAME)

\* the number of instances this step created
Created == Len(instances') - Len(instances)

\* C18: defineRequestConfig given a list registers its elements in list order
\* and stops at the first that fails: when the element at position k throws
\* a registration error, the k - 1 elements before it are registered, each to
\* the instance created for it, the call throws that error, and neither
\* element k nor any element after it is registered; so a list holding the
\* same explicit name twice leaves the name registered to the first element's
\* instance and throws.
C18_ListStopsAtFirstFailure ==
    [][DefineStep =>
        LET cs == last'.configs.items
        IN  /\ Created >= 0 /\ Created <= Len(cs)
            /\ \A j \in 1..Created :
                   /\ instances'[Len(instances) + j].defaults = cs[j]
                   /\ instanceMap'[RegistrationName(cs[j])] = Len(instances) + j
            /\ DOMAIN instanceMap' =
                   DOMAIN instanceMap \cup {RegistrationName(cs[j]) : j \in 1..Created}
            /\ \A n \in DOMAIN instanceMap : instanceMap'[n] = instanceMap[n]
            /\ IF last'.thrown = NoError
               THEN Created = Len(cs)
               ELSE /\ Created < Len(cs)
                    /\ LET failing == cs[Created + 1]
                       IN  IF RegistrationName(failing) \in DOMAIN instanceMap'
                           THEN /\ last'.thrown.kind =
                                       "Instance already exists, cannot be defined again"
                                /\ last'.thrown.name = StringOf(RegistrationName(failing))
                           ELSE /\ failing.instanceName = StringName("")
                                /\ DEFAULT_INSTANCE_NAME \in DOMAIN instanceMap'
                                /\ last'.thrown = DefaultExistsError]_vars

\* C18 witness: a list of two different configurations named 'a' threw the
\* duplicate error and left 'a' registered to the instance of the first
C18_Witness ==
    /\ last.op = "defineRequestConfig"
    /\ last.configs =
           ConfigList(<<PlainConfig(StringName("a"), Undefined, Undefined, Undefined),
                        PlainConfig(StringName("a"), Undefined, "true", Undefined)>>)
    /\ last.thrown = DuplicateInstanceError(StringName("a"))
    /\ Has(instanceMap, StringName("a"))
    /\ instances[instanceMap[StringName("a")]].defaults =
           PlainConfig(StringName("a"), Undefined, Undefined, Undefined)
    /\ Len(instances) = 1

----------------------------------------------------------------------------
(* Claims about a throwing error handler *)

\* C19: when the errorHandler invoked on the failure path of request()
\* throws, request() rejects with what the handler threw, not with the error
\* it was handling; no other handler is invoked after it; and the call's
\* one-shot interceptors have been ejected all the same.
C19_HandlerErrorPropagates ==
    \A c \in Failed :
        (calls[c].invoked # <<>> /\ ~HandlersReturned(c)) =>
            /\ Len(calls[c].invoked) = 1
            /\ calls[c].invoked[1].error = OriginalError(c)
            /\ calls[c].error = [kind |-> "thrown by handler",
                                 name |-> calls[c].invoked[1].handler]
            /\ calls[c].error # OriginalError(c)
            /\ calls[c].instance # 0 =>
                   /\ \A id \in IdSet(calls[c].requestIds) :
                          ~Attached(instances[calls[c].instance].request, id)
                   /\ \A id \in IdSet(calls[c].responseIds) :
                          ~Attached(instances[calls[c].instance].response, id)

\* C19 witness: on the instance 'a', which has an instance-level handler,
\* a call with one-shot interceptors and a throwing call-level handler failed
\* in transport: it rejected with the handler's error, the instance-level
\* handler was not invoked
C19_Witness ==
    \E c \in Failed :
        /\ TransportFailed(c)
        /\ InstanceHandler(c) = "instanceHandler"
        /\ calls[c].requestIds # <<>> /\ calls[c].responseIds # <<>>
        /\ Len(calls[c].invoked) = 1
        /\ calls[c].invoked[1].handler = "callHandlerThrows"
        /\ calls[c].error = HandlerError("callHandlerThrows")

====
